---- MODULE Spec2Model ----
(***************************************************************************)
(* Model of the contribution-merge worker (src/src/index.js): the pure     *)
(* functions mergeContributions, getLevel and escapeXml, the renderer, and *)
(* the request handler with its two concurrent fan-out points.             *)
(***************************************************************************)
EXTENDS Integers, Sequences, FiniteSets, TLC

VARIABLES
    call,             \* pure-function specifications: the call under test
    ret,              \* and its return value
    request,          \* the query parameters merge, years and theme
    env,              \* GITHUB_TOKEN and PRIMARY_USER
    currentYear,      \* new Date().getFullYear()
    pc,               \* where the handler is suspended
    additionalUsers,  \* the parsed merge parameter
    authResults,      \* the settled authorization promises, by position
    authOrder,        \* the positions in the order their checks completed
    authorizedUsers,  \* the merge set
    years,            \* the year list
    fetches,          \* the contribution fetch promises, by year and account
    yearData,         \* the merged series of the years merged so far
    issued,           \* the network calls issued so far, in order
    response          \* the response of the handler

handlerVars == <<request, env, currentYear, pc, additionalUsers, authResults,
                 authOrder, authorizedUsers, years, fetches, yearData, issued,
                 response>>

vars == <<call, ret, request, env, currentYear, pc, additionalUsers,
          authResults, authOrder, authorizedUsers, years, fetches, yearData,
          issued, response>>

(***************************************************************************)
(* Generic helpers                                                         *)
(***************************************************************************)
RECURSIVE SumSeq(_)
SumSeq(s) == IF s = <<>> THEN 0 ELSE Head(s) + SumSeq(Tail(s))

RECURSIVE Concat(_)
Concat(ss) == IF ss = <<>> THEN <<>> ELSE Head(ss) \o Concat(Tail(ss))

Range(s) == {s[i] : i \in 1..Len(s)}

NullValue == [null |-> TRUE]

IsNull(v) == "null" \in DOMAIN v

(***************************************************************************)
(* getLevel, src/src/index.js:170-176                                      *)
(***************************************************************************)
\* the third threshold compared with <= instead of <
getLevel_InclusiveTen(count) ==
    IF count = 0 THEN "NONE"
    ELSE IF count < 5 THEN "FIRST_QUARTILE"
    ELSE IF count <= 10 THEN "SECOND_QUARTILE"
    ELSE IF count < 20 THEN "THIRD_QUARTILE"
    ELSE "FOURTH_QUARTILE"

getLevel(count) ==
    IF count = 0 THEN "NONE"
    ELSE IF count < 5 THEN "FIRST_QUARTILE"
    ELSE IF count < 10 THEN "SECOND_QUARTILE"
    ELSE IF count < 20 THEN "THIRD_QUARTILE"
    ELSE "FOURTH_QUARTILE"

(***************************************************************************)
(* mergeContributions, src/src/index.js:115-168                            *)
(***************************************************************************)
\* calendar.weeks.forEach(week => week.contributionDays.forEach(day => ...)):
\* the days of a calendar in visiting order
FlatDays(calendar) ==
    Concat([w \in 1..Len(calendar.weeks) |-> calendar.weeks[w].contributionDays])

\* the (username, day) visits of the accumulation loop, in order (122-138)
Visits(dataArray, usernames) ==
    Concat([idx \in 1..Len(dataArray) |->
              LET days == FlatDays(dataArray[idx])
              IN  [k \in 1..Len(days) |->
                     [username |-> usernames[idx], day |-> days[k]]]])

\* contributionMap.get(date) || 0  (134, 154)
MapGet(contributionMap, date) ==
    IF date \in DOMAIN contributionMap THEN contributionMap[date] ELSE 0

\* the sum is overwritten by the last count instead of accumulated
MergeTotals_Overwrite(contributionMap, day) ==
    (day.date :> day.contributionCount) @@ contributionMap

\* contributionMap.set(date, existing + count)  (134-135)
MergeTotals(contributionMap, day) ==
    (day.date :> (MapGet(contributionMap, day.date) + day.contributionCount))
        @@ contributionMap

\* userContributionData[date][username] = count  (128-131)
TrackUser(userContributionData, username, day) ==
    LET old == IF day.date \in DOMAIN userContributionData
               THEN userContributionData[day.date] ELSE <<>>
    IN  (day.date :> ((username :> day.contributionCount) @@ old))
            @@ userContributionData

RECURSIVE Accumulate(_, _)
Accumulate(acc, visits) ==
    IF visits = <<>> THEN acc
    ELSE Accumulate(
           [contributionMap |-> MergeTotals(acc.contributionMap, Head(visits).day),
            userContributionData |->
                TrackUser(acc.userContributionData, Head(visits).username,
                          Head(visits).day)],
           Tail(visits))

\* one day of the template walk (153-161)
MergedDay(contributionMap, day) ==
    LET count == MapGet(contributionMap, day.date)
    IN  [date |-> day.date,
         contributionCount |-> count,
         contributionLevel |-> getLevel(count)]

\* days without contributions are left out of the merged week
MergedWeek_SkipEmpty(contributionMap, week) ==
    [contributionDays |->
        LET kept == SelectSeq(week.contributionDays,
                              LAMBDA d : MapGet(contributionMap, d.date) # 0)
        IN  [k \in 1..Len(kept) |-> MergedDay(contributionMap, kept[k])]]

\* one week of the template walk (148-165)
MergedWeek(contributionMap, week) ==
    [contributionDays |->
        [k \in 1..Len(week.contributionDays) |->
            MergedDay(contributionMap, week.contributionDays[k])]]

\* merged.totalContributions += count, over the template walk (155)
TemplateTotal(contributionMap, template) ==
    LET days == FlatDays(template)
    IN  SumSeq([k \in 1..Len(days) |-> MapGet(contributionMap, days[k].date)])

mergeContributions(dataArray, usernames) ==
    IF Len(dataArray) = 0 THEN NullValue
    ELSE LET acc == Accumulate([contributionMap |-> <<>>,
                                userContributionData |-> <<>>],
                               Visits(dataArray, usernames))
             template == dataArray[1]
         IN  [totalContributions |-> TemplateTotal(acc.contributionMap, template),
              weeks |-> [w \in 1..Len(template.weeks) |->
                           MergedWeek(acc.contributionMap, template.weeks[w])],
              userContributions |-> acc.userContributionData]

(***************************************************************************)
(* Text.  A string that the program inspects is a sequence of one-character *)
(* strings; identifiers and dates that are only compared stay opaque.      *)
(***************************************************************************)
Digits == <<"0", "1", "2", "3", "4", "5", "6", "7", "8", "9">>

IsDigit(c) == \E i \in 1..Len(Digits) : Digits[i] = c

DigitValue(c) == (CHOOSE i \in 1..Len(Digits) : Digits[i] = c) - 1

\* `${n}` for a non-negative integer
RECURSIVE ToDigits(_)
ToDigits(n) ==
    IF n < 10 THEN <<Digits[n + 1]>>
    ELSE ToDigits(n \div 10) \o <<Digits[(n % 10) + 1]>>

\* the value of a sequence of digits
RECURSIVE DigitsValue(_)
DigitsValue(ds) ==
    IF ds = <<>> THEN 0
    ELSE 10 * DigitsValue(SubSeq(ds, 1, Len(ds) - 1)) + DigitValue(ds[Len(ds)])

IsSpace(c) == c \in {" ", "\n", "\t"}

\* String.prototype.trim
RECURSIVE TrimLeft(_)
TrimLeft(str) ==
    IF str # <<>> /\ IsSpace(Head(str)) THEN TrimLeft(Tail(str)) ELSE str

RECURSIVE TrimRight(_)
TrimRight(str) ==
    IF str # <<>> /\ IsSpace(str[Len(str)])
    THEN TrimRight(SubSeq(str, 1, Len(str) - 1)) ELSE str

Trim(str) == TrimRight(TrimLeft(str))

\* Array.prototype.join
RECURSIVE Join(_, _)
Join(strs, sep) ==
    IF strs = <<>> THEN <<>>
    ELSE IF Len(strs) = 1 THEN strs[1]
    ELSE strs[1] \o sep \o Join(Tail(strs), sep)

(***************************************************************************)
(* escapeXml, src/src/index.js:278-293                                     *)
(***************************************************************************)
\* the apostrophe is left out of the character class
escapeChar_NoApos(c) ==
    CASE c = "<" -> <<"&", "l", "t", ";">>
      [] c = ">" -> <<"&", "g", "t", ";">>
      [] c = "&" -> <<"&", "a", "m", "p", ";">>
      [] c = "\"" -> <<"&", "q", "u", "o", "t", ";">>
      [] OTHER -> <<c>>

\* the replacement of one character (the callback of str.replace)
escapeChar(c) ==
    CASE c = "<" -> <<"&", "l", "t", ";">>
      [] c = ">" -> <<"&", "g", "t", ";">>
      [] c = "&" -> <<"&", "a", "m", "p", ";">>
      [] c = "'" -> <<"&", "a", "p", "o", "s", ";">>
      [] c = "\"" -> <<"&", "q", "u", "o", "t", ";">>
      [] OTHER -> <<c>>

escapeXml(str) == Concat([i \in 1..Len(str) |-> escapeChar(str[i])])

(***************************************************************************)
(* formatDate and generateTooltipContent, src/src/index.js:295-315         *)
(***************************************************************************)
MonthShort ==
    << <<"J", "a", "n">>, <<"F", "e", "b">>, <<"M", "a", "r">>,
       <<"A", "p", "r">>, <<"M", "a", "y">>, <<"J", "u", "n">>,
       <<"J", "u", "l">>, <<"A", "u", "g">>, <<"S", "e", "p">>,
       <<"O", "c", "t">>, <<"N", "o", "v">>, <<"D", "e", "c">> >>

InvalidDateText == <<"I", "n", "v", "a", "l", "i", "d", " ", "D", "a", "t", "e">>

NaNText == <<"N", "a", "N">>

IsLeapYear(y) == (y % 4 = 0 /\ y % 100 # 0) \/ y % 400 = 0

DaysInMonth(y, m) ==
    IF m = 2 THEN (IF IsLeapYear(y) THEN 29 ELSE 28)
    ELSE IF m \in {4, 6, 9, 11} THEN 30 ELSE 31

\* new Date(dateString) for the date-only form YYYY-MM-DD (read as UTC, and
\* the worker's local time is UTC); any other text gives an invalid date
ParseDate(dateString) ==
    IF /\ Len(dateString) = 10
       /\ dateString[5] = "-"
       /\ dateString[8] = "-"
       /\ \A i \in {1, 2, 3, 4, 6, 7, 9, 10} : IsDigit(dateString[i])
    THEN LET y == DigitsValue(SubSeq(dateString, 1, 4))
             m == DigitsValue(SubSeq(dateString, 6, 7))
             d == DigitsValue(SubSeq(dateString, 9, 10))
         IN  IF m \in 1..12 /\ d >= 1 /\ d <= DaysInMonth(y, m)
             THEN [valid |-> TRUE, year |-> y, month |-> m, day |-> d]
             ELSE [valid |-> FALSE]
    ELSE [valid |-> FALSE]

\* date.toLocaleDateString("en-US", { month: "short" })
MonthName(date) == IF date.valid THEN MonthShort[date.month] ELSE InvalidDateText

\* `${date.getDate()}`
DayOfMonthText(date) == IF date.valid THEN ToDigits(date.day) ELSE NaNText

formatDate(dateString) ==
    LET date == ParseDate(dateString)
    IN  MonthName(date) \o <<" ">> \o DayOfMonthText(date)

\* userContribs[username] || 0
UserCount(userContribs, username) ==
    IF username \in DOMAIN userContribs THEN userContribs[username] ELSE 0

TooltipLine(userContribs, username) ==
    LET count == UserCount(userContribs, username)
    IN  IF count = 0
        THEN username \o <<" ", "n", "o", " ", "c", "o", "n", "t", "r", "i",
                           "b", "u", "t", "i", "o", "n", "s">>
        ELSE username \o <<" ">> \o ToDigits(count)
                      \o <<" ", "c", "o", "n", "t", "r", "i", "b", "u", "t",
                           "i", "o", "n">>
                      \o (IF count # 1 THEN <<"s">> ELSE <<>>)

generateTooltipContent(date, userContribs, usernames) ==
    Trim(formatDate(date) \o <<":", "\n">>
         \o Concat([i \in 1..Len(usernames) |->
                      TooltipLine(userContribs, usernames[i]) \o <<"\n">>]))

(***************************************************************************)
(* Theme registry, src/src/index.js:179-276                                *)
(***************************************************************************)
Palette(bg, year, month, day, l0, l1, l2, l3, l4) ==
    [background |-> bg, yearLabel |-> year, monthLabel |-> month,
     dayLabel |-> day,
     levels |-> [NONE |-> l0, FIRST_QUARTILE |-> l1, SECOND_QUARTILE |-> l2,
                 THIRD_QUARTILE |-> l3, FOURTH_QUARTILE |-> l4]]

THEMES ==
    ("dark" :> Palette("#0d1117", "#f0f6fc", "#8b949e", "#8b949e",
                       "#161b22", "#0e4429", "#006d32", "#26a641", "#39d353"))
    @@ ("light" :> Palette("#ffffff", "#24292f", "#57606a", "#57606a",
                       "#ebedf0", "#9be9a8", "#40c463", "#30a14e", "#216e39"))
    @@ ("solarized-dark" :> Palette("#002b36", "#839496", "#839496", "#839496",
                       "#073642", "#268bd2", "#2aa198", "#859900", "#b58900"))
    @@ ("solarized-light" :> Palette("#fdf6e3", "#657b83", "#657b83", "#657b83",
                       "#eee8d5", "#268bd2", "#2aa198", "#859900", "#b58900"))
    @@ ("nord-polar-night" :> Palette("#2e3440", "#d8dee9", "#d8dee9", "#d8dee9",
                       "#3b4252", "#434c5e", "#4c566a", "#5e81ac", "#88c0d0"))
    @@ ("nord-frost" :> Palette("#2e3440", "#d8dee9", "#d8dee9", "#d8dee9",
                       "#3b4252", "#8fbcbb", "#88c0d0", "#81a1c1", "#5e81ac"))
    @@ ("nord-aurora" :> Palette("#2e3440", "#d8dee9", "#d8dee9", "#d8dee9",
                       "#3b4252", "#a3be8c", "#ebcb8b", "#d08770", "#bf616a"))

\* THEMES[theme] || THEMES.dark
ResolveTheme(theme) == IF theme \in DOMAIN THEMES THEN THEMES[theme] ELSE THEMES["dark"]

getLevelColor(level, theme) ==
    LET colors == ResolveTheme(theme).levels
    IN  IF level \in DOMAIN colors THEN colors[level] ELSE colors.NONE

(***************************************************************************)
(* renderYearGraph, src/src/index.js:328-412                               *)
(***************************************************************************)
cellSize == 10
cellGap == 3
yearLabelHeight == 20
monthLabelHeight == 15
dayLabelWidth == 30

dayLabels == <<"", "Mon", "", "Wed", "", "Fri", "">>

\* a week without days advances the x position of the labels
RECURSIVE MonthLabels_AdvanceOnEmpty(_, _, _, _, _)
MonthLabels_AdvanceOnEmpty(weeks, w, currentMonth, monthX, y) ==
    IF w > Len(weeks) THEN <<>>
    ELSE IF Len(weeks[w].contributionDays) = 0
         THEN MonthLabels_AdvanceOnEmpty(weeks, w + 1, currentMonth,
                                         monthX + 13, y)
    ELSE LET date == ParseDate(weeks[w].contributionDays[1].date)
             month == MonthName(date)
             emit == month # currentMonth /\ date.valid /\ date.day <= 7
         IN  (IF emit THEN <<[x |-> monthX, y |-> y, text |-> month]>> ELSE <<>>)
             \o MonthLabels_AdvanceOnEmpty(weeks, w + 1,
                                           IF emit THEN month ELSE currentMonth,
                                           monthX + 13, y)

\* the month-label loop (353-368): the labels emitted for the weeks from
\* index w on, given the last labelled month and the running x position
RECURSIVE MonthLabels(_, _, _, _, _)
MonthLabels(weeks, w, currentMonth, monthX, y) ==
    IF w > Len(weeks) THEN <<>>
    ELSE IF Len(weeks[w].contributionDays) = 0
         THEN MonthLabels(weeks, w + 1, currentMonth, monthX, y)
    ELSE LET date == ParseDate(weeks[w].contributionDays[1].date)
             month == MonthName(date)
             emit == month # currentMonth /\ date.valid /\ date.day <= 7
         IN  (IF emit THEN <<[x |-> monthX, y |-> y, text |-> month]>> ELSE <<>>)
             \o MonthLabels(weeks, w + 1,
                            IF emit THEN month ELSE currentMonth,
                            monthX + cellSize + cellGap, y)

\* one contribution square (388-408); weekIdx and dayIdx count from 0
ContributionSquare(calendar, usernames, xOffset, yOffset, theme, pad, weekIdx, dayIdx) ==
    LET day == calendar.weeks[weekIdx + 1].contributionDays[dayIdx + 1]
    IN  [x |-> xOffset + pad + dayLabelWidth + weekIdx * (cellSize + cellGap),
         y |-> yOffset + pad + yearLabelHeight + monthLabelHeight
                 + dayIdx * (cellSize + cellGap),
         width |-> cellSize,
         height |-> cellSize,
         fill |-> getLevelColor(day.contributionLevel, theme),
         dataDate |-> escapeXml(day.date),
         dataCount |-> day.contributionCount,
         title |-> escapeXml(generateTooltipContent(
                      day.date,
                      IF day.date \in DOMAIN calendar.userContributions
                      THEN calendar.userContributions[day.date] ELSE <<>>,
                      usernames))]

renderYearGraph(calendar, year, usernames, xOffset, yOffset, theme, pad) ==
    LET weeks == calendar.weeks
    IN  [svg |->
           [yearLabel |-> [x |-> xOffset + pad, y |-> yOffset + pad + 14,
                           text |-> year],
            monthLabels |->
                MonthLabels(weeks, 1, <<>>, xOffset + pad + dayLabelWidth,
                            yOffset + pad + yearLabelHeight + 10),
            dayLabels |->
                LET rows == SelectSeq(<<0, 1, 2, 3, 4, 5, 6>>,
                                      LAMBDA idx : dayLabels[idx + 1] # "")
                IN  [r \in 1..Len(rows) |->
                       [x |-> xOffset + pad,
                        y |-> yOffset + pad + yearLabelHeight
                                + monthLabelHeight
                                + rows[r] * (cellSize + cellGap) + cellSize - 2,
                        text |-> dayLabels[rows[r] + 1]]],
            rects |->
                Concat([w \in 1..Len(weeks) |->
                          [d \in 1..Len(weeks[w].contributionDays) |->
                             ContributionSquare(calendar, usernames, xOffset,
                                                yOffset, theme, pad,
                                                w - 1, d - 1)]])],
         width |-> dayLabelWidth + Len(weeks) * (cellSize + cellGap),
         height |-> yearLabelHeight + monthLabelHeight + 7 * (cellSize + cellGap)]

(***************************************************************************)
(* generateCompleteSVG and generateSVGVertical, src/src/index.js:460-522   *)
(***************************************************************************)
graphSpacing == 20
padding == 10
headerHeight == 25
bottomSpacing == 15

UsersPrefix == <<"U", "s", "e", "r", "s", " ", "-", " ">>

\* `Users - ${usernames.join(", ")}`
UserListText(usernames) == UsersPrefix \o Join(usernames, <<",", " ">>)

generateCompleteSVG(width, height, usernames, graphSVGs, theme, pad) ==
    LET themeColors == ResolveTheme(theme)
    IN  [width |-> width,
         height |-> height,
         style |-> themeColors,
         background |-> themeColors.background,
         header |-> [x |-> pad, y |-> pad + 16,
                     text |-> escapeXml(UserListText(usernames))],
         graphs |-> graphSVGs]

MaxOf(ns) == CHOOSE m \in Range(ns) : \A n \in Range(ns) : n <= m

\* the spacing is added after every block, the last one included
RECURSIVE RenderBlocks_SpacingAfterLast(_, _, _, _, _)
RenderBlocks_SpacingAfterLast(yearBlocks, idx, currentY, usernames, theme) ==
    IF idx > Len(yearBlocks) THEN [graphSVGs |-> <<>>, currentY |-> currentY]
    ELSE LET result == renderYearGraph(yearBlocks[idx].calendar, yearBlocks[idx].year,
                                       usernames, 0, currentY, theme, padding)
             rest == RenderBlocks_SpacingAfterLast(
                         yearBlocks, idx + 1,
                         currentY + result.height + graphSpacing,
                         usernames, theme)
         IN  [graphSVGs |-> <<result.svg>> \o rest.graphSVGs,
              currentY |-> rest.currentY]

\* the yearData.forEach loop (497-509) from the block of index idx (counting
\* from 1) on: the graphs pushed and the final currentY
RECURSIVE RenderBlocks(_, _, _, _, _)
RenderBlocks(yearBlocks, idx, currentY, usernames, theme) ==
    IF idx > Len(yearBlocks) THEN [graphSVGs |-> <<>>, currentY |-> currentY]
    ELSE LET result == renderYearGraph(yearBlocks[idx].calendar, yearBlocks[idx].year,
                                       usernames, 0, currentY, theme, padding)
             rest == RenderBlocks(yearBlocks, idx + 1,
                                  currentY + result.height
                                    + (IF idx < Len(yearBlocks) THEN graphSpacing ELSE 0),
                                  usernames, theme)
         IN  [graphSVGs |-> <<result.svg>> \o rest.graphSVGs,
              currentY |-> rest.currentY]

generateSVGVertical(yearBlocks, usernames, theme) ==
    LET maxWeeks == MaxOf([i \in 1..Len(yearBlocks) |-> Len(yearBlocks[i].calendar.weeks)])
        width == padding + dayLabelWidth + maxWeeks * (cellSize + cellGap) + padding
        blocks == RenderBlocks(yearBlocks, 1, padding + headerHeight, usernames, theme)
        totalHeight == blocks.currentY + padding + bottomSpacing
    IN  generateCompleteSVG(width, totalHeight, usernames, blocks.graphSVGs,
                            theme, padding)

(***************************************************************************)
(* Inputs of the pure-function specification of the merger                 *)
(***************************************************************************)
MaxSeries == 2
MaxCount == 25

Accounts == {"alice", "bob"}

Day(d, n) == [date |-> d, contributionCount |-> n]

SampleDays == {Day("2024-06-01", 3), Day("2024-06-01", 7),
               Day("2024-06-02", 0), Day("2024-06-02", 10)}

\* week partitions of an input calendar: the number of days of each week
WeekShapes == {<<>>, <<1>>, <<2>>, <<1, 1>>, <<0, 1>>}

WeeksOfLength(n) == {[contributionDays |-> ds] : ds \in [1..n -> SampleDays]}

\* a series of the fetcher holds a date at most once
DistinctDates(calendar) ==
    LET days == FlatDays(calendar)
    IN  \A i, j \in 1..Len(days) : days[i].date = days[j].date => i = j

CalendarsOfShape(shape) ==
    LET pool == UNION {WeeksOfLength(shape[i]) : i \in 1..Len(shape)}
    IN  {c \in {[weeks |-> ws] :
                  ws \in {x \in [1..Len(shape) -> pool] :
                            \A i \in 1..Len(shape) :
                               Len(x[i].contributionDays) = shape[i]}} :
           DistinctDates(c)}

SampleCalendars == UNION {CalendarsOfShape(s) : s \in WeekShapes}

MergeCalls ==
    {[fn |-> "mergeContributions", dataArray |-> da, usernames |-> us] :
        <<da, us>> \in UNION {[1..n -> SampleCalendars] \X [1..n -> Accounts] :
                                 n \in 0..MaxSeries}}

LevelCalls == {[fn |-> "getLevel", count |-> c] : c \in 0..MaxCount}

Pending == [pending |-> TRUE]

NoResponse == [none |-> TRUE]

\* no request is in progress
HandlerIdle ==
    /\ request = <<>>
    /\ env = <<>>
    /\ currentYear = 0
    /\ pc = "idle"
    /\ additionalUsers = <<>>
    /\ authResults = <<>>
    /\ authOrder = <<>>
    /\ authorizedUsers = <<>>
    /\ years = <<>>
    /\ fetches = <<>>
    /\ yearData = <<>>
    /\ issued = <<>>
    /\ response = NoResponse

InitMerge ==
    /\ call \in MergeCalls \cup LevelCalls
    /\ ret = Pending
    /\ HandlerIdle

CallMergeContributions ==
    /\ ret = Pending
    /\ call.fn = "mergeContributions"
    /\ ret' = mergeContributions(call.dataArray, call.usernames)
    /\ UNCHANGED call
    /\ UNCHANGED handlerVars

CallGetLevel ==
    /\ ret = Pending
    /\ call.fn = "getLevel"
    /\ ret' = [level |-> getLevel(call.count)]
    /\ UNCHANGED call
    /\ UNCHANGED handlerVars

NextMerge == CallMergeContributions \/ CallGetLevel

SpecMerge == InitMerge /\ [][NextMerge]_vars

(***************************************************************************)
(* Inputs of the pure-function specification of the renderer               *)
(***************************************************************************)
MaxIdLen == 2
MaxBlocks == 2

MarkupChars == {"<", ">", "&", "'", "\""}

IdChars == MarkupChars \cup {"a"}

\* account identifiers: every text of up to MaxIdLen characters, and two
\* that already look like entities
RenderIds ==
    UNION {[1..n -> IdChars] : n \in 1..MaxIdLen}
    \cup {<<"&", "l", "t", ";">>, <<"&", "a", "m", "p", ";">>}

SecondIds == {<<"b">>, <<"&", "'">>}

RenderUserLists ==
    {<<u>> : u \in RenderIds} \cup {<<u, v>> : <<u, v>> \in RenderIds \X SecondIds}

RenderDates ==
    {<<"2", "0", "2", "4", "-", "0", "6", "-", "0", "1">>,
     <<"<">>, <<"&", "\"">>, <<"'", ">">>}

RenderCounts == {0, 1, 12}

\* the merged series of one year: every account has one day, the first with
\* the given count and the others with none
RenderCalendar(usernames, date, count) ==
    mergeContributions(
        [i \in 1..Len(usernames) |->
            [weeks |-> <<[contributionDays |->
                            <<Day(date, IF i = 1 THEN count ELSE 0)>>]>>]],
        usernames)

RenderCalls ==
    {[fn |-> "generateSVGVertical",
      yearData |-> [b \in 1..n |->
                      [year |-> 2025 - b,
                       calendar |-> RenderCalendar(us, d, c)]],
      usernames |-> us,
      theme |-> "dark"] :
        <<n, us, d, c>> \in (1..MaxBlocks) \X RenderUserLists \X RenderDates
                               \X RenderCounts}

InitRender ==
    /\ call \in RenderCalls
    /\ ret = Pending
    /\ HandlerIdle

CallGenerateSVGVertical ==
    /\ ret = Pending
    /\ call.fn = "generateSVGVertical"
    /\ ret' = generateSVGVertical(call.yearData, call.usernames, call.theme)
    /\ UNCHANGED call
    /\ UNCHANGED handlerVars

NextRender == CallGenerateSVGVertical

SpecRender == InitRender /\ [][NextRender]_vars

RenderDone == call.fn = "generateSVGVertical" /\ ret # Pending

MergeDone == call.fn = "mergeContributions" /\ ret # Pending /\ ~IsNull(ret)

(***************************************************************************)
(* The request handler, src/src/index.js:524-676                           *)
(***************************************************************************)
\* a query parameter or environment value: absent (null, undefined) or a text
Absent == [present |-> FALSE]

Given(text) == [present |-> TRUE, value |-> text]

\* the truthiness test of a parameter: neither absent nor the empty text
Truthy(param) == param.present /\ param.value # <<>>

\* String.prototype.split
RECURSIVE Split(_, _)
Split(str, sep) ==
    IF \E i \in 1..Len(str) : str[i] = sep
    THEN LET i == CHOOSE k \in 1..Len(str) :
                     str[k] = sep /\ \A j \in 1..(k - 1) : str[j] # sep
         IN  <<SubSeq(str, 1, i - 1)>> \o Split(SubSeq(str, i + 1, Len(str)), sep)
    ELSE <<str>>

\* the parsed merge parameter (550-556)
ParseMerge(mergeParam, primaryUser) ==
    IF Truthy(mergeParam)
    THEN LET parts == Split(mergeParam.value, ",")
             trimmed == [i \in 1..Len(parts) |-> Trim(parts[i])]
         IN  SelectSeq(trimmed, LAMBDA u : u # <<>> /\ u # primaryUser)
    ELSE <<>>

HexDigits == <<"0", "1", "2", "3", "4", "5", "6", "7", "8", "9",
               "a", "b", "c", "d", "e", "f">>

LowerHex(c) ==
    CASE c = "A" -> "a" [] c = "B" -> "b" [] c = "C" -> "c"
      [] c = "D" -> "d" [] c = "E" -> "e" [] c = "F" -> "f" [] OTHER -> c

IsHexDigit(c) == \E i \in 1..Len(HexDigits) : HexDigits[i] = LowerHex(c)

HexDigitValue(c) == (CHOOSE i \in 1..Len(HexDigits) : HexDigits[i] = LowerHex(c)) - 1

\* the longest prefix of str made of decimal digits
RECURSIVE DigitRun(_)
DigitRun(str) ==
    IF str # <<>> /\ IsDigit(Head(str))
    THEN <<Head(str)>> \o DigitRun(Tail(str)) ELSE <<>>

\* the longest prefix of str made of hexadecimal digits
RECURSIVE HexRun(_)
HexRun(str) ==
    IF str # <<>> /\ IsHexDigit(Head(str))
    THEN <<Head(str)>> \o HexRun(Tail(str)) ELSE <<>>

RECURSIVE HexValue(_)
HexValue(ds) ==
    IF ds = <<>> THEN 0
    ELSE 16 * HexValue(SubSeq(ds, 1, Len(ds) - 1)) + HexDigitValue(ds[Len(ds)])

NaN == [nan |-> TRUE]

Number(n) == [nan |-> FALSE, value |-> n]

\* parseInt(str) without a radix: leading white space, an optional sign, then
\* the longest run of digits (hexadecimal ones after 0x); NaN if there are none
parseInt(str) ==
    LET t == TrimLeft(str)
        negative == t # <<>> /\ Head(t) = "-"
        body == IF t # <<>> /\ Head(t) \in {"-", "+"} THEN Tail(t) ELSE t
        hex == Len(body) >= 2 /\ body[1] = "0" /\ body[2] \in {"x", "X"}
        run == IF hex THEN HexRun(SubSeq(body, 3, Len(body))) ELSE DigitRun(body)
        magnitude == IF hex THEN HexValue(run) ELSE DigitsValue(run)
    IN  IF run = <<>> THEN NaN
        ELSE Number(IF negative THEN 0 - magnitude ELSE magnitude)

FloorYear == 2008

\* the loop stops one year below the floor year
RECURSIVE YearLoop_FloorOffByOne(_, _, _)
YearLoop_FloorOffByOne(i, yearCount, thisYear) ==
    IF i >= yearCount \/ thisYear - i < FloorYear - 1 THEN <<>>
    ELSE <<thisYear - i>> \o YearLoop_FloorOffByOne(i + 1, yearCount, thisYear)

\* the loop that counts back from the current year (623-629), from index i on
RECURSIVE YearLoop(_, _, _)
YearLoop(i, yearCount, thisYear) ==
    IF i >= yearCount THEN <<>>
    ELSE LET year == thisYear - i
         IN  IF year < FloorYear THEN <<>>
             ELSE <<year>> \o YearLoop(i + 1, yearCount, thisYear)

\* the year list of the request, or the rejection of the years value (606-633)
ParseYears(yearsParam, thisYear) ==
    IF Truthy(yearsParam)
    THEN LET yearCount == parseInt(Trim(yearsParam.value))
         IN  IF yearCount.nan \/ yearCount.value < 1
             THEN [ok |-> FALSE]
             ELSE [ok |-> TRUE, years |-> YearLoop(0, yearCount.value, thisYear)]
    ELSE [ok |-> TRUE, years |-> <<thisYear>>]

validThemes == <<"dark", "light", "solarized-dark", "solarized-light",
                 "nord-polar-night", "nord-frost", "nord-aurora">>

\* url.searchParams.get("theme") || "dark"; theme names are opaque texts
ThemeOf(themeParam) ==
    IF themeParam.present /\ themeParam.value # "" THEN themeParam.value ELSE "dark"

ErrorResponse(status, text) ==
    [status |-> status, contentType |-> "text/plain", body |-> [text |-> text]]

TokenError == ErrorResponse(500, "Error: GITHUB_TOKEN not configured.")

PrimaryError == ErrorResponse(500, "Error: PRIMARY_USER not configured.")

NoUsersError == ErrorResponse(400, "Error: No authorized users to display")

ThemeError == ErrorResponse(400, "Error: Invalid theme parameter. Valid options: ...")

YearsError ==
    ErrorResponse(400, "Error: Invalid years parameter. Use ?years=N where N is a positive number")

GenericMessage == "An error occurred while generating the contribution graph"

\* the message of the caught error is sent to the caller
HandlerCatch_Leaky(error) == ErrorResponse(500, error)

\* the catch block of the handler (665-674)
HandlerCatch(error) == ErrorResponse(500, GenericMessage)

SvgResponse(svg) == [status |-> 200, contentType |-> "image/svg+xml", body |-> svg]

Resolved(v) == [settled |-> "resolved", value |-> v]

Rejected(reason) == [settled |-> "rejected", reason |-> reason]

\* what the gist lookup of one account can come to
GistOutcomes == {"gist_found", "no_gist", "not_ok", "throws"}

\* an exception of the lookup escapes the function
verifyUserAuthorization_NoCatch(outcome) ==
    CASE outcome = "not_ok" -> Resolved(FALSE)
      [] outcome = "no_gist" -> Resolved(FALSE)
      [] outcome = "throws" -> Rejected("gist lookup failed")
      [] OTHER -> Resolved(TRUE)

\* verifyUserAuthorization (16-60), by the outcome of its gist lookup
verifyUserAuthorization(outcome) ==
    CASE outcome = "not_ok" -> Resolved(FALSE)
      [] outcome = "no_gist" -> Resolved(FALSE)
      [] outcome = "throws" -> Resolved(FALSE)
      [] OTHER -> Resolved(TRUE)

\* the merge set starts empty instead of holding the primary account
CollectAuthorized_NoPrimary(primaryUser, results, order) ==
    LET kept == SelectSeq(results, LAMBDA r : r.isAuthorized)
    IN  [k \in 1..Len(kept) |-> kept[k].user]

\* the secondaries are pushed in the order their checks completed
CollectAuthorized_CompletionOrder(primaryUser, results, order) ==
    LET kept == SelectSeq(order, LAMBDA i : results[i].isAuthorized)
    IN  <<primaryUser>> \o [k \in 1..Len(kept) |-> results[kept[k]].user]

\* the merge set built from the joined authorization results (559, 571-577);
\* Promise.all gives the results by position, whatever the completion order
CollectAuthorized(primaryUser, results, order) ==
    LET kept == SelectSeq(results, LAMBDA r : r.isAuthorized)
    IN  <<primaryUser>> \o [k \in 1..Len(kept) |-> kept[k].user]

(***************************************************************************)
(* The contribution service as the handler sees it                         *)
(***************************************************************************)
WorldDays == 4

\* the weekday of January 1st, Sunday = 0
WeekdayOfJan1(y) ==
    (1 + 5 * ((y - 1) % 4) + 4 * ((y - 1) % 100) + 6 * ((y - 1) % 400)) % 7

JanuaryDate(y, d) ==
    ToDigits(y) \o <<"-", "0", "1", "-">>
    \o (IF d < 10 THEN <<"0">> ELSE <<>>) \o ToDigits(d)

AccountBase(username) ==
    IF username = <<>> THEN 1
    ELSE CASE Head(username) = "a" -> 3
           [] Head(username) = "b" -> 7
           [] Head(username) = "c" -> 10
           [] OTHER -> 1

WorldCount(username, y, d) ==
    IF d = 2 THEN 0 ELSE AccountBase(username) + (d - 1)

\* the contribution calendar of an account for a year: the first WorldDays
\* days of January in Sunday-start weeks, the first week a partial one
WorldCalendar(username, y) ==
    LET firstLen == 7 - WeekdayOfJan1(y)
        weekOf(d) == IF d <= firstLen THEN 1 ELSE 2 + ((d - firstLen - 1) \div 7)
        nWeeks == weekOf(WorldDays)
    IN  [weeks |->
           [w \in 1..nWeeks |->
              [contributionDays |->
                 LET ds == SelectSeq([d \in 1..WorldDays |-> d],
                                     LAMBDA d : weekOf(d) = w)
                 IN  [k \in 1..Len(ds) |->
                        Day(JanuaryDate(y, ds[k]), WorldCount(username, y, ds[k]))]]]]

\* what the query of one (account, year) pair can come to
FetchOutcomes == {"calendar", "http_error", "graphql_errors", "user_not_found",
                  "network_error"}

\* fetchContributions (62-113), by the outcome of its query
fetchContributions(username, year, outcome) ==
    CASE outcome = "http_error" -> Rejected("HTTP 502: Bad Gateway")
      [] outcome = "graphql_errors" -> Rejected("Could not resolve to a User")
      [] outcome = "user_not_found" -> Rejected("User not found")
      [] outcome = "network_error" -> Rejected("network connection lost")
      [] OTHER -> Resolved(WorldCalendar(username, year))

(***************************************************************************)
(* The requests of the handler's specification                             *)
(***************************************************************************)
MergeParams ==
    {Absent,
     Given(<<"b">>),
     Given(<<"b", ",", "c">>),
     Given(<<"c", ",", "b">>),
     Given(<<"b", ",", "b">>),
     Given(<<" ", "b", " ", ",", "a", ",", ",", "c">>)}

YearsParams == {Absent, Given(<<"2">>), Given(<<"0">>), Given(<<"x">>)}

ThemeParams == {Absent, Given("light"), Given("neon")}

Tokens == {Absent, Given(<<"t">>)}

PrimaryUsers == {Absent, Given(<<"a">>), Given(<<" ", "a">>)}

CurrentYears == {2026}

Init ==
    /\ call = <<>>
    /\ ret = <<>>
    /\ request \in [mergeParam : MergeParams, yearsParam : YearsParams,
                    themeParam : ThemeParams]
    /\ env \in [GITHUB_TOKEN : Tokens, PRIMARY_USER : PrimaryUsers]
    /\ currentYear \in CurrentYears
    /\ pc = "start"
    /\ additionalUsers = <<>>
    /\ authResults = <<>>
    /\ authOrder = <<>>
    /\ authorizedUsers = <<>>
    /\ years = <<>>
    /\ fetches = <<>>
    /\ yearData = <<>>
    /\ issued = <<>>
    /\ response = NoResponse

primaryUser == Trim(env.PRIMARY_USER.value)

GistCall(user) == [api |-> "gists", user |-> user]

GraphqlCall(user, year) == [api |-> "graphql", user |-> user, year |-> year]

\* the handler from the join of the authorization checks to the fan-out of
\* the contribution fetches (571-645), for the merge set users
Proceed(users) ==
    /\ authorizedUsers' = users
    /\ IF Len(users) = 0
       THEN /\ response' = NoUsersError
            /\ pc' = "done"
            /\ UNCHANGED <<years, fetches, yearData, issued>>
       ELSE IF ThemeOf(request.themeParam) \notin Range(validThemes)
       THEN /\ response' = ThemeError
            /\ pc' = "done"
            /\ UNCHANGED <<years, fetches, yearData, issued>>
       ELSE LET parsed == ParseYears(request.yearsParam, currentYear)
            IN  IF ~parsed.ok
                THEN /\ response' = YearsError
                     /\ pc' = "done"
                     /\ UNCHANGED <<years, fetches, yearData, issued>>
                ELSE /\ years' = parsed.years
                     /\ fetches' = [y \in 1..Len(parsed.years) |->
                                      [i \in 1..Len(users) |-> Pending]]
                     /\ yearData' = [y \in 1..Len(parsed.years) |-> Pending]
                     /\ issued' = issued
                          \o Concat([y \in 1..Len(parsed.years) |->
                                       [i \in 1..Len(users) |->
                                          GraphqlCall(users[i], parsed.years[y])]])
                     /\ response' = NoResponse
                     /\ pc' = "fetch"

\* the handler from its entry to its first suspension (526-569)
HandleRequest ==
    /\ pc = "start"
    /\ UNCHANGED <<call, ret, request, env, currentYear>>
    /\ IF ~Truthy(env.GITHUB_TOKEN)
       THEN /\ response' = TokenError
            /\ pc' = "done"
            /\ UNCHANGED <<additionalUsers, authResults, authOrder,
                           authorizedUsers, years, fetches, yearData, issued>>
       ELSE IF ~Truthy(env.PRIMARY_USER)
       THEN /\ response' = PrimaryError
            /\ pc' = "done"
            /\ UNCHANGED <<additionalUsers, authResults, authOrder,
                           authorizedUsers, years, fetches, yearData, issued>>
       ELSE LET parsed == ParseMerge(request.mergeParam, primaryUser)
            IN  /\ additionalUsers' = parsed
                /\ authResults' = [i \in 1..Len(parsed) |-> Pending]
                /\ UNCHANGED authOrder
                /\ IF parsed = <<>>
                   THEN Proceed(CollectAuthorized(primaryUser, <<>>, <<>>))
                   ELSE /\ issued' = [i \in 1..Len(parsed) |-> GistCall(parsed[i])]
                        /\ pc' = "auth"
                        /\ authorizedUsers' = <<primaryUser>>
                        /\ UNCHANGED <<years, fetches, yearData, response>>

\* one authorization check settles; the last one resumes the handler
AuthComplete(i, outcome) ==
    /\ pc = "auth"
    /\ authResults[i] = Pending
    /\ UNCHANGED <<call, ret, request, env, currentYear, additionalUsers>>
    /\ LET promise == verifyUserAuthorization(outcome)
           order == Append(authOrder, i)
       IN  /\ authOrder' = order
           /\ IF promise.settled = "rejected"
              THEN /\ authResults' = [authResults EXCEPT ![i] =
                                        [user |-> additionalUsers[i],
                                         isAuthorized |-> FALSE,
                                         outcome |-> outcome]]
                   /\ response' = HandlerCatch(promise.reason)
                   /\ pc' = "done"
                   /\ UNCHANGED <<authorizedUsers, years, fetches, yearData, issued>>
              ELSE LET results == [authResults EXCEPT ![i] =
                                     [user |-> additionalUsers[i],
                                      isAuthorized |-> promise.value,
                                      outcome |-> outcome]]
                   IN  /\ authResults' = results
                       /\ IF \A j \in 1..Len(results) : results[j] # Pending
                          THEN Proceed(CollectAuthorized(primaryUser, results, order))
                          ELSE UNCHANGED <<authorizedUsers, years, fetches,
                                           yearData, issued, response, pc>>

\* the series of a year in the order of the merge set (640)
DataArray(yearFetches) == [j \in 1..Len(yearFetches) |-> yearFetches[j].value]

\* one contribution fetch settles: a rejection ends the request in the catch
\* block, the last fetch of a year merges the year, and the last year renders
FetchComplete(y, i, outcome) ==
    /\ pc \in {"fetch", "done"}
    /\ y \in 1..Len(fetches)
    /\ i \in 1..Len(fetches[y])
    /\ fetches[y][i] = Pending
    /\ UNCHANGED <<call, ret, request, env, currentYear, additionalUsers,
                   authResults, authOrder, authorizedUsers, years, issued>>
    /\ LET promise == fetchContributions(authorizedUsers[i], years[y], outcome)
           settled == IF promise.settled = "rejected"
                      THEN [settled |-> "rejected"] ELSE promise
           after == [fetches EXCEPT ![y][i] = settled]
           yearDone == \A j \in 1..Len(after[y]) :
                          after[y][j] # Pending /\ after[y][j].settled = "resolved"
           merged == IF yearDone
                     THEN [yearData EXCEPT ![y] =
                             [year |-> years[y],
                              calendar |-> mergeContributions(DataArray(after[y]),
                                                              authorizedUsers)]]
                     ELSE yearData
       IN  /\ fetches' = after
           /\ yearData' = merged
           /\ response' =
                IF response # NoResponse THEN response
                ELSE IF promise.settled = "rejected" THEN HandlerCatch(promise.reason)
                ELSE IF \A z \in 1..Len(merged) : merged[z] # Pending
                THEN SvgResponse(generateSVGVertical(merged, authorizedUsers,
                                                     ThemeOf(request.themeParam)))
                ELSE NoResponse
           /\ pc' = IF response' # NoResponse THEN "done" ELSE "fetch"

Next ==
    \/ HandleRequest
    \/ \E i \in 1..Len(authResults), outcome \in GistOutcomes :
          AuthComplete(i, outcome)
    \/ \E y \in 1..Len(fetches), i \in 1..Len(authorizedUsers),
          outcome \in FetchOutcomes : FetchComplete(y, i, outcome)

Spec == Init /\ [][Next]_vars

(***************************************************************************)
(* Inputs of the pure-function specification of the year list              *)
(***************************************************************************)
MaxYear == 2026
MaxYearCount == 20

\* years values with the count they stand for (-1: not a positive number)
YearCountParams ==
    {[param |-> Given(ToDigits(n)), n |-> IF n = 0 THEN -1 ELSE n] :
        n \in 0..MaxYearCount}
    \cup {[param |-> Given(<<"1", "0", "0">>), n |-> 100],
          [param |-> Given(<<" ", "3", " ">>), n |-> 3],
          [param |-> Given(<<"2", "x">>), n |-> 2],
          [param |-> Given(<<"+", "4">>), n |-> 4],
          [param |-> Given(<<"x">>), n |-> -1],
          [param |-> Given(<<"-", "1">>), n |-> -1],
          [param |-> Given(<<>>), n |-> 0],
          [param |-> Absent, n |-> 0]}

YearsCalls ==
    {[fn |-> "ParseYears", yearsParam |-> p.param, n |-> p.n, thisYear |-> y] :
        <<p, y>> \in YearCountParams \X (FloorYear..MaxYear)}

InitYears ==
    /\ call \in YearsCalls
    /\ ret = Pending
    /\ HandlerIdle

CallParseYears ==
    /\ ret = Pending
    /\ call.fn = "ParseYears"
    /\ ret' = ParseYears(call.yearsParam, call.thisYear)
    /\ UNCHANGED call
    /\ UNCHANGED handlerVars

NextYears == CallParseYears

SpecYears == InitYears /\ [][NextYears]_vars

(***************************************************************************)
(* Properties of the merger                                                *)
(***************************************************************************)
\* every day of every input series
AllInputDays(dataArray) ==
    Concat([idx \in 1..Len(dataArray) |-> FlatDays(dataArray[idx])])

CountsOf(days) == [k \in 1..Len(days) |-> days[k].contributionCount]

\* the counts of the input days that carry the given date
CountsOn(dataArray, date) ==
    CountsOf(SelectSeq(AllInputDays(dataArray), LAMBDA d : d.date = date))

\* every input date occurs in the first series
SameCoverage(dataArray) ==
    LET first == FlatDays(dataArray[1])
    IN  \A d \in Range(AllInputDays(dataArray)) :
           \E i \in 1..Len(first) : first[i].date = d.date

\* C2 (as stated): the returned total is the sum of the merged days' counts
\* and equals the sum of the counts of every day of every input series.
C2_TotalIsSumOfAllInputs ==
    MergeDone =>
        /\ ret.totalContributions = SumSeq(CountsOf(FlatDays(ret)))
        /\ ret.totalContributions = SumSeq(CountsOf(AllInputDays(call.dataArray)))

\* C2 (amended): the returned total is the sum of the merged days' counts; it
\* is the sum, over the day slots of the first series, of the counts of all
\* input days carrying the slot's date, and so equals the sum of all input
\* counts whenever every input date occurs in the first series.
C2_TotalIsSumOverTemplate ==
    MergeDone =>
        LET slots == FlatDays(call.dataArray[1])
        IN  /\ ret.totalContributions = SumSeq(CountsOf(FlatDays(ret)))
            /\ ret.totalContributions =
                  SumSeq([k \in 1..Len(slots) |->
                            SumSeq(CountsOn(call.dataArray, slots[k].date))])
            /\ SameCoverage(call.dataArray) =>
                  ret.totalContributions =
                      SumSeq(CountsOf(AllInputDays(call.dataArray)))

\* two series of equal coverage with a positive total have been merged
C2_Witness ==
    /\ MergeDone
    /\ Len(call.dataArray) = 2
    /\ SameCoverage(call.dataArray)
    /\ Len(FlatDays(call.dataArray[2])) = 2
    /\ ret.totalContributions = 20

\* C3: the merged weeks have the number of weeks, the number of days per week
\* and the date at every (week, day) position of the first input series,
\* whatever the other series hold; a slot whose date carries no contribution
\* in any input gets count 0.
C3_TemplateFidelity ==
    MergeDone =>
        LET template == call.dataArray[1]
        IN  /\ Len(ret.weeks) = Len(template.weeks)
            /\ \A w \in 1..Len(template.weeks) :
                  LET src == template.weeks[w].contributionDays
                      out == ret.weeks[w].contributionDays
                  IN  /\ Len(out) = Len(src)
                      /\ \A k \in 1..Len(src) :
                            /\ out[k].date = src[k].date
                            /\ SumSeq(CountsOn(call.dataArray, src[k].date)) = 0
                                  => out[k].contributionCount = 0

\* a two-week template merged with a series of another partition and coverage
C3_Witness ==
    /\ MergeDone
    /\ Len(call.dataArray) = 2
    /\ Len(call.dataArray[1].weeks) = 2
    /\ Len(call.dataArray[2].weeks) = 1
    /\ ~SameCoverage(call.dataArray)
    /\ \E k \in 1..Len(FlatDays(ret)) : FlatDays(ret)[k].contributionCount = 0

LevelMatches(count, level) ==
    /\ level = "NONE" <=> count = 0
    /\ level = "FIRST_QUARTILE" <=> (1 <= count /\ count < 5)
    /\ level = "SECOND_QUARTILE" <=> (5 <= count /\ count < 10)
    /\ level = "THIRD_QUARTILE" <=> (10 <= count /\ count < 20)
    /\ level = "FOURTH_QUARTILE" <=> count >= 20

\* two accounts with 3 and 7 contributions on the same single date
ThreeAndSeven ==
    /\ call.fn = "mergeContributions"
    /\ Len(call.dataArray) = 2
    /\ call.usernames[1] # call.usernames[2]
    /\ CountsOf(FlatDays(call.dataArray[1])) = <<3>>
    /\ CountsOf(FlatDays(call.dataArray[2])) = <<7>>
    /\ FlatDays(call.dataArray[1])[1].date = FlatDays(call.dataArray[2])[1].date

\* C4: the level of a merged day is determined by its summed count alone, by
\* the thresholds 0 / 1..4 / 5..9 / 10..19 / >= 20; 3 and 7 contributions of
\* two accounts on one date give count 10 and THIRD_QUARTILE.
C4_LevelThresholds ==
    /\ MergeDone =>
          \A k \in 1..Len(FlatDays(ret)) :
             LevelMatches(FlatDays(ret)[k].contributionCount,
                          FlatDays(ret)[k].contributionLevel)
    /\ (call.fn = "getLevel" /\ ret # Pending) =>
          LevelMatches(call.count, ret.level)
    /\ (MergeDone /\ ThreeAndSeven) =>
          /\ FlatDays(ret)[1].contributionCount = 10
          /\ FlatDays(ret)[1].contributionLevel = "THIRD_QUARTILE"

C4_Witness == MergeDone /\ ThreeAndSeven

(***************************************************************************)
(* Properties of the escaping                                              *)
(***************************************************************************)
Entities ==
    {[char |-> "<", text |-> <<"&", "l", "t", ";">>],
     [char |-> ">", text |-> <<"&", "g", "t", ";">>],
     [char |-> "&", text |-> <<"&", "a", "m", "p", ";">>],
     [char |-> "'", text |-> <<"&", "a", "p", "o", "s", ";">>],
     [char |-> "\"", text |-> <<"&", "q", "u", "o", "t", ";">>]}

EntityAt(text, i) ==
    {e \in Entities : /\ i + Len(e.text) - 1 <= Len(text)
                      /\ SubSeq(text, i, i + Len(e.text) - 1) = e.text}

\* no markup character is raw: an & only opens one of the five entities
OnlyEntities(text) ==
    \A i \in 1..Len(text) :
       /\ text[i] \notin {"<", ">", "'", "\""}
       /\ text[i] = "&" => EntityAt(text, i) # {}

\* the text a reader of the document decodes, one entity at a time
RECURSIVE Unescape(_)
Unescape(text) ==
    IF text = <<>> THEN <<>>
    ELSE IF EntityAt(text, 1) # {}
         THEN LET e == CHOOSE x \in EntityAt(text, 1) : TRUE
              IN  <<e.char>> \o Unescape(SubSeq(text, Len(e.text) + 1, Len(text)))
    ELSE <<Head(text)>> \o Unescape(Tail(text))

\* text occurs in whole as a contiguous part of within
Occurs(text, within) ==
    \E i \in 1..(Len(within) - Len(text) + 1) :
       SubSeq(within, i, i + Len(text) - 1) = text

\* C9: in the header text, in every tooltip and in every data-date attribute
\* the characters < > & ' " of the account identifiers and of the date
\* appear only as their entities, and decoding each entity once gives back
\* the text that was escaped (an & of an entity is not escaped again).
C9_EscapedEverywhere ==
    RenderDone =>
        /\ OnlyEntities(ret.header.text)
        /\ Unescape(ret.header.text) = UserListText(call.usernames)
        /\ \A b \in 1..Len(ret.graphs) :
              LET days == FlatDays(call.yearData[b].calendar)
                  rects == ret.graphs[b].rects
              IN  /\ Len(rects) = Len(days)
                  /\ \A k \in 1..Len(rects) :
                        /\ OnlyEntities(rects[k].dataDate)
                        /\ Unescape(rects[k].dataDate) = days[k].date
                        /\ OnlyEntities(rects[k].title)
                        /\ \A i \in 1..Len(call.usernames) :
                              Occurs(Trim(call.usernames[i]),
                                     Unescape(rects[k].title))

\* a document rendered for an identifier and a date holding markup characters
C9_Witness ==
    /\ RenderDone
    /\ call.usernames = << <<"&", "l", "t", ";">>, <<"&", "'">> >>
    /\ FlatDays(call.yearData[1].calendar)[1].date = <<"&", "\"">>
    /\ ret.header.text =
          escapeXml(UsersPrefix) \o <<"&", "a", "m", "p", ";", "l", "t", ";">>
          \o <<",", " ">> \o <<"&", "a", "m", "p", ";", "&", "a", "p", "o", "s", ";">>
    /\ ret.graphs[1].rects[1].dataDate =
          <<"&", "a", "m", "p", ";", "&", "q", "u", "o", "t", ";">>

(***************************************************************************)
(* Properties of the year list                                             *)
(***************************************************************************)
Min(a, b) == IF a < b THEN a ELSE b

\* C8: for a valid years=N in year Y the year list is Y, Y-1, ... down to
\* max(Y-N+1, 2008): min(N, Y-2008+1) years descending by 1 from Y, none
\* below 2008; without a years value it is the current year alone; years=100
\* in 2024 gives the 17 years 2024..2008.
C8_YearList ==
    (call.fn = "ParseYears" /\ ret # Pending) =>
        /\ call.n >= 1 =>
              /\ ret.ok
              /\ Len(ret.years) = Min(call.n, call.thisYear - 2008 + 1)
              /\ \A k \in 1..Len(ret.years) :
                    /\ ret.years[k] = call.thisYear - (k - 1)
                    /\ ret.years[k] >= 2008
        /\ call.n = 0 => ret.ok /\ ret.years = <<call.thisYear>>
        /\ call.n < 0 => ~ret.ok
        /\ (call.n = 100 /\ call.thisYear = 2024) =>
              ret.years = [k \in 1..17 |-> 2025 - k]

\* years=100 asked in 2024 and answered
C8_Witness ==
    /\ call.fn = "ParseYears"
    /\ call.yearsParam = Given(<<"1", "0", "0">>)
    /\ call.thisYear = 2024
    /\ ret # Pending
    /\ Len(ret.years) = 17

(***************************************************************************)
(* Properties of the request handler                                       *)
(***************************************************************************)
HasResponse == response # NoResponse

IsSvg == HasResponse /\ response.contentType = "image/svg+xml"

GenericError == ErrorResponse(500, GenericMessage)

SomeFetchFailed ==
    \E y \in 1..Len(fetches) : \E i \in 1..Len(fetches[y]) :
       fetches[y][i] = [settled |-> "rejected"]

AllFetchesSucceeded ==
    /\ fetches # <<>>
    /\ \A y \in 1..Len(fetches) : \A i \in 1..Len(fetches[y]) :
          fetches[y][i] # Pending /\ fetches[y][i].settled = "resolved"

\* the handler has passed the join of the authorization checks
AuthJoined ==
    /\ pc \in {"fetch", "done"}
    /\ Truthy(env.GITHUB_TOKEN)
    /\ Truthy(env.PRIMARY_USER)
    /\ \A j \in 1..Len(authResults) : authResults[j] # Pending

ValidRequest ==
    /\ ThemeOf(request.themeParam) \in Range(validThemes)
    /\ ParseYears(request.yearsParam, currentYear).ok

\* the count recorded for an account in the per-date breakdown, 0 if absent
Breakdown(calendar, date, username) ==
    IF date \in DOMAIN calendar.userContributions
    THEN UserCount(calendar.userContributions[date], username)
    ELSE 0

\* the sum of the breakdown of a date over the accounts of the list, each
\* account taken once
BreakdownSum(calendar, date, usernames) ==
    SumSeq([i \in 1..Len(usernames) |->
              IF \E j \in 1..(i - 1) : usernames[j] = usernames[i]
              THEN 0 ELSE Breakdown(calendar, date, usernames[i])])

\* C1: for every date of the merged weeks the merged count equals the sum,
\* over the accounts of the merge set, of the value recorded for the account
\* in the per-date breakdown of that date (an absent account counting as 0).
C1_CountIsSumOfBreakdown ==
    \A y \in 1..Len(yearData) :
       yearData[y] # Pending =>
          \A k \in 1..Len(FlatDays(yearData[y].calendar)) :
             LET day == FlatDays(yearData[y].calendar)[k]
             IN  day.contributionCount =
                    BreakdownSum(yearData[y].calendar, day.date, authorizedUsers)

\* C5: when the response is the error of a missing configuration value, of
\* an invalid theme or of an invalid years value, no network call has been
\* issued (no gist lookup and no contribution fetch).
C5_ValidationBeforeNetwork ==
    response \in {TokenError, PrimaryError, ThemeError, YearsError} =>
        issued = <<>>

\* C6: once the fetch of any (account, year) pair has failed, the response
\* is the generic plain-text 500 error, whose body says nothing of the
\* failure, and an SVG response is built only when every fetch succeeded.
C6_FetchFailureIsGeneric500 ==
    /\ SomeFetchFailed =>
          /\ response = GenericError
          /\ response.status = 500
          /\ response.contentType = "text/plain"
          /\ response.body.text = GenericMessage
    /\ IsSvg => AllFetchesSucceeded

\* one fetch failed after a whole year had been fetched and merged
C6_Witness ==
    /\ SomeFetchFailed
    /\ Len(authorizedUsers) = 2
    /\ Len(yearData) = 2
    /\ yearData[1] # Pending
    /\ response = GenericError

\* the positions of the secondary accounts whose gist lookup found the gist
FoundGist == {j \in 1..Len(authResults) : authResults[j].outcome = "gist_found"}

\* C7: a failed authorization check (non-OK response, no matching gist, an
\* exception) never fails the request: while checks are outstanding there is
\* no response; after the join the merge set holds the primary account and
\* exactly the secondaries whose check succeeded; an error of the catch block
\* comes from a failed fetch only; and a valid request goes on to fetch every
\* (account, year) pair of the merge set and renders once all have succeeded.
C7_AuthFailureNonFatal ==
    /\ pc = "auth" => ~HasResponse
    /\ AuthJoined =>
          /\ Len(authorizedUsers) = 1 + Cardinality(FoundGist)
          /\ authorizedUsers[1] = primaryUser
          /\ \A j \in FoundGist :
                authResults[j].user \in Range(Tail(authorizedUsers))
          /\ \A u \in Range(Tail(authorizedUsers)) :
                \E j \in FoundGist : authResults[j].user = u
          /\ response = GenericError => SomeFetchFailed
          /\ ValidRequest =>
                /\ Len(fetches) = Len(years)
                /\ Len(years) >= 1
                /\ \A y \in 1..Len(fetches) :
                      /\ Len(fetches[y]) = Len(authorizedUsers)
                      /\ \A i \in 1..Len(authorizedUsers) :
                            GraphqlCall(authorizedUsers[i], years[y]) \in Range(issued)
                /\ AllFetchesSucceeded => IsSvg

\* one secondary account failed its check with an exception, the other one
\* passed, and the document was rendered for the remaining accounts
C7_Witness ==
    /\ AuthJoined
    /\ Len(authResults) = 2
    /\ authResults[1].outcome = "throws"
    /\ authResults[2].outcome = "gist_found"
    /\ authorizedUsers = <<primaryUser, authResults[2].user>>
    /\ IsSvg

\* C10: whatever the completion order, the merge set is the primary account
\* followed by the authorized secondaries in the order requested; the header
\* lists the accounts in that order; the series merged under the i-th
\* identifier of a year is the one fetched for that account and year; and
\* the year blocks are rendered most recent year first.
C10_OrderIndependent ==
    AuthJoined =>
        /\ authorizedUsers =
              <<primaryUser>>
              \o LET kept == SelectSeq([j \in 1..Len(additionalUsers) |-> j],
                                       LAMBDA j : authResults[j].isAuthorized)
                 IN  [k \in 1..Len(kept) |-> additionalUsers[kept[k]]]
        /\ \A y \in 1..Len(yearData) :
              yearData[y] # Pending =>
                 /\ yearData[y].year = years[y]
                 /\ \A i \in 1..Len(authorizedUsers) :
                       \A d \in 1..WorldDays :
                          Breakdown(yearData[y].calendar, JanuaryDate(years[y], d),
                                    authorizedUsers[i])
                             = WorldCount(authorizedUsers[i], years[y], d)
        /\ IsSvg =>
              /\ Unescape(response.body.header.text) = UserListText(authorizedUsers)
              /\ Len(response.body.graphs) = Len(years)
              /\ \A b \in 1..Len(years) :
                    /\ response.body.graphs[b].yearLabel.text = currentYear - (b - 1)
                    /\ \A c \in 1..(b - 1) :
                          response.body.graphs[c].yearLabel.y
                             < response.body.graphs[b].yearLabel.y

\* the second check completed first, both accounts were authorized and two
\* years were rendered
C10_Witness ==
    /\ IsSvg
    /\ authOrder = <<2, 1>>
    /\ Len(authorizedUsers) = 3
    /\ authorizedUsers[2] # authorizedUsers[3]
    /\ Len(years) = 2

(***************************************************************************)
(* The merge set always holds the primary account                          *)
(***************************************************************************)
ConfigOk == Truthy(env.GITHUB_TOKEN) /\ Truthy(env.PRIMARY_USER)

NoSecondaryAuthorized ==
    \A j \in 1..Len(authResults) : ~authResults[j].isAuthorized

\* C11: once the configuration checks have passed, the merge set is never
\* empty and its first entry is the primary account, and the response is
\* never the "No authorized users to display" error; when no secondary
\* account is authorized the merge set is the primary account alone, the
\* header names that account only, and every rectangle of every year block
\* carries the count fetched for the primary account on its date.
C11_PrimaryAlwaysIncluded ==
    /\ response # NoUsersError
    /\ (pc # "start" /\ ConfigOk) =>
          /\ Len(authorizedUsers) >= 1
          /\ authorizedUsers[1] = primaryUser
    /\ (AuthJoined /\ NoSecondaryAuthorized) =>
          /\ authorizedUsers = <<primaryUser>>
          /\ IsSvg =>
                /\ Unescape(response.body.header.text) = UsersPrefix \o primaryUser
                /\ \A b \in 1..Len(years) :
                      LET rects == response.body.graphs[b].rects
                      IN  /\ Len(rects) = WorldDays
                          /\ \A d \in 1..WorldDays :
                                /\ Unescape(rects[d].dataDate)
                                      = JanuaryDate(years[b], d)
                                /\ rects[d].dataCount
                                      = WorldCount(primaryUser, years[b], d)

\* two secondary accounts were requested, neither was authorized, and the
\* document of two years was rendered for the primary account alone
C11_Witness ==
    /\ AuthJoined
    /\ Len(authResults) = 2
    /\ NoSecondaryAuthorized
    /\ authorizedUsers = <<primaryUser>>
    /\ Len(years) = 2
    /\ IsSvg

(***************************************************************************)
(* Inputs of the pure-function specification of the grid layout: the       *)
(* series the contribution service returns for a year (62-82), in          *)
(* Sunday-start weeks whose first and last week hold only the days of the  *)
(* year, merged for one account                                            *)
(***************************************************************************)
MaxGridYear == 2032
MaxGap == 3
MaxGridBlocks == 2

TwoDigits(n) == (IF n < 10 THEN <<"0">> ELSE <<>>) \o ToDigits(n)

IsoDate(y, m, d) == ToDigits(y) \o <<"-">> \o TwoDigits(m) \o <<"-">> \o TwoDigits(d)

DaysInYear(y) == IF IsLeapYear(y) THEN 366 ELSE 365

\* the days of the year before the first of month m
RECURSIVE DaysBeforeMonth(_, _)
DaysBeforeMonth(y, m) ==
    IF m = 1 THEN 0 ELSE DaysBeforeMonth(y, m - 1) + DaysInMonth(y, m - 1)

\* the month holding the n-th day of the year
MonthOfDay(y, n) ==
    CHOOSE m \in 1..12 :
        DaysBeforeMonth(y, m) < n /\ n <= DaysBeforeMonth(y, m) + DaysInMonth(y, m)

DateOfDay(y, n) ==
    LET m == MonthOfDay(y, n) IN IsoDate(y, m, n - DaysBeforeMonth(y, m))

\* the weekday of a parsed date, Sunday = 0
Weekday(date) ==
    (WeekdayOfJan1(date.year) + DaysBeforeMonth(date.year, date.month)
       + date.day - 1) % 7

GridCount(n) == (7 * n) % 23

\* the weeks of the first nDays days of year y: the number of weeks and the
\* first and last day (counted from January 1st) of week w
WeeksInSeries(y, nDays) == (WeekdayOfJan1(y) + nDays - 1) \div 7 + 1

FirstDayOfWeek(y, w) == IF w = 1 THEN 1 ELSE 7 * (w - 1) - WeekdayOfJan1(y) + 1

LastDayOfWeek(y, nDays, w) ==
    IF 7 * w - WeekdayOfJan1(y) < nDays THEN 7 * w - WeekdayOfJan1(y) ELSE nDays

GridUsers == << <<"a">> >>

\* a merged series with a week without days put before the week of index gap
\* (no such week when gap is 0)
WithEmptyWeek(calendar, gap) ==
    IF gap = 0 THEN calendar
    ELSE [calendar EXCEPT !.weeks =
            SubSeq(calendar.weeks, 1, gap - 1)
            \o <<[contributionDays |-> <<>>]>>
            \o SubSeq(calendar.weeks, gap, Len(calendar.weeks))]

\* the sum of the counts of the days lo..hi
RECURSIVE GridTotal(_, _)
GridTotal(lo, hi) ==
    IF lo > hi THEN 0
    ELSE IF lo = hi THEN GridCount(lo)
    ELSE LET mid == (lo + hi) \div 2
         IN  GridTotal(lo, mid) + GridTotal(mid + 1, hi)

\* the day of the merged series for the n-th day of year y (153-161)
GridDay(y, n) ==
    [date |-> DateOfDay(y, n),
     contributionCount |-> GridCount(n),
     contributionLevel |-> getLevel(GridCount(n))]

\* the series of the first nDays days of year y, in Sunday-start weeks,
\* merged for the one account of GridUsers (the value mergeContributions
\* returns for it, 140-167)
MergedSeriesOfYear(y, nDays) ==
    [totalContributions |-> GridTotal(1, nDays),
     weeks |-> [w \in 1..WeeksInSeries(y, nDays) |->
                  [contributionDays |->
                     [k \in 1..(LastDayOfWeek(y, nDays, w)
                                  - FirstDayOfWeek(y, w) + 1) |->
                        GridDay(y, FirstDayOfWeek(y, w) + k - 1)]]],
     userContributions |->
         [date \in {DateOfDay(y, n) : n \in 1..nDays} |->
             LET parsed == ParseDate(date)
             IN  (GridUsers[1] :>
                    GridCount(DaysBeforeMonth(y, parsed.month) + parsed.day))]]

GridCalendar(y, nDays, gap) == WithEmptyWeek(MergedSeriesOfYear(y, nDays), gap)

\* the calls on the whole-year series of the years up to lastYear, with a
\* week without days before one of the first lastGap weeks or with none
YearGraphCalls(lastYear, lastGap) ==
    {[fn |-> "renderYearGraph", year |-> y, gap |-> g,
      calendar |-> GridCalendar(y, DaysInYear(y), g)] :
        <<y, g>> \in (FloorYear..lastYear) \X (0..lastGap)}

\* the lengths in days of the series of the layout calls
BlockDays == {1, 9, 30, 365}

LayoutCalls(maxBlocks) ==
    {[fn |-> "generateSVGVertical",
      yearData |-> [b \in 1..Len(ns) |->
                      [year |-> 2025 - b,
                       calendar |-> GridCalendar(2025 - b, ns[b], 0)]]] :
        ns \in UNION {[1..n -> BlockDays] : n \in 1..maxBlocks}}

InitGrid ==
    /\ call \in YearGraphCalls(MaxGridYear, MaxGap) \cup LayoutCalls(MaxGridBlocks)
    /\ ret = Pending
    /\ HandlerIdle

\* renderYearGraph as generateSVGVertical calls it for the first block (498-506)
CallRenderYearGraph ==
    /\ ret = Pending
    /\ call.fn = "renderYearGraph"
    /\ ret' = renderYearGraph(call.calendar, call.year, GridUsers, 0,
                              padding + headerHeight, "dark", padding)
    /\ UNCHANGED call
    /\ UNCHANGED handlerVars

CallLayout ==
    /\ ret = Pending
    /\ call.fn = "generateSVGVertical"
    /\ ret' = generateSVGVertical(call.yearData, GridUsers, "dark")
    /\ UNCHANGED call
    /\ UNCHANGED handlerVars

NextGrid == CallRenderYearGraph \/ CallLayout

SpecGrid == InitGrid /\ [][NextGrid]_vars

YearGraphDone == call.fn = "renderYearGraph" /\ ret # Pending

LayoutDone == call.fn = "generateSVGVertical" /\ ret # Pending

\* the top of the grid of the block rendered at yOffset (391-396)
GridTop(yOffset) == yOffset + padding + yearLabelHeight + monthLabelHeight

\* C12: every rectangle of a rendered year stands in the row of the weekday
\* of its date (y = grid top + 13 x weekday, Sunday = 0), also in a first or
\* last week of fewer than 7 days, so that the rows labelled Mon, Wed and Fri
\* hold exactly the Monday, Wednesday and Friday dates.
C12_RowIsWeekday ==
    YearGraphDone =>
        \A r \in 1..Len(ret.svg.rects) :
           LET rect == ret.svg.rects[r]
               date == ParseDate(Unescape(rect.dataDate))
           IN  /\ rect.y = GridTop(padding + headerHeight)
                             + Weekday(date) * (cellSize + cellGap)
               /\ \A l \in 1..Len(ret.svg.dayLabels) :
                     LET label == ret.svg.dayLabels[l]
                     IN  label.y = rect.y + cellSize - 2 =>
                            label.text = CASE Weekday(date) = 1 -> "Mon"
                                           [] Weekday(date) = 3 -> "Wed"
                                           [] Weekday(date) = 5 -> "Fri"
                                           [] OTHER -> "none"

\* the week of the whole year y that holds the first Sunday of month m, or
\* January 1st for January: the first week whose first day lies in month m
LabelWeek(y, m) ==
    CHOOSE w \in 1..WeeksInSeries(y, DaysInYear(y)) :
        /\ MonthOfDay(y, FirstDayOfWeek(y, w)) = m
        /\ FirstDayOfWeek(y, w) - DaysBeforeMonth(y, m) <= 7
        /\ \A v \in 1..(w - 1) : MonthOfDay(y, FirstDayOfWeek(y, v)) # m

\* C13: for the series of a whole year in Sunday-start weeks, exactly twelve
\* month labels are emitted, January to December in this order, each at the
\* x position of the first week column whose first day lies in the month
\* (its day of month being at most 7); a week without days emits no label
\* and does not move the labels that follow it.
C13_OneLabelPerMonth ==
    YearGraphDone =>
        /\ Len(ret.svg.monthLabels) = 12
        /\ \A m \in 1..12 :
              LET label == ret.svg.monthLabels[m]
              IN  /\ label.text = MonthShort[m]
                  /\ label.x = padding + dayLabelWidth
                                 + (LabelWeek(call.year, m) - 1) * (cellSize + cellGap)
                  /\ label.y = padding + headerHeight + padding
                                 + yearLabelHeight + 10

\* the year 2024 rendered with a week without days before its second week
C13_Witness ==
    /\ YearGraphDone
    /\ call.year = 2024
    /\ call.gap = 2
    /\ Len(call.calendar.weeks) = 54
    /\ call.calendar.weeks[2].contributionDays = <<>>
    /\ Len(ret.svg.monthLabels) = 12
    /\ ret.svg.monthLabels[2].text = <<"F", "e", "b">>
    /\ ret.svg.monthLabels[2].x = padding + dayLabelWidth + 5 * (cellSize + cellGap)

\* the top of the b-th year block of a rendered document, read off the
\* position of its year label (351)
BlockTop(b) == ret.graphs[b].yearLabel.y - padding - 14

\* the height of a year block (345-346)
BlockHeight == yearLabelHeight + monthLabelHeight + 7 * (cellSize + cellGap)

\* C14: for a non-empty list of year blocks whose weeks hold at most 7 days,
\* the document is 10 + 30 + maxWeeks x 13 + 10 wide, the first block starts
\* below the header band, each further block starts 20 below the bottom of
\* the block before it, the document ends 10 + 15 below the bottom of the
\* last block (no spacing after it), one rectangle is emitted per day, every
\* rectangle lies inside the canvas, and the rectangles of an earlier block
\* end above the rectangles of every later block.
C14_RectanglesInsideCanvas ==
    LayoutDone =>
        LET n == Len(call.yearData)
            maxWeeks == MaxOf([b \in 1..n |-> Len(call.yearData[b].calendar.weeks)])
        IN  /\ n >= 1
            /\ Len(ret.graphs) = n
            /\ ret.width = 10 + 30 + maxWeeks * 13 + 10
            /\ BlockTop(1) = 10 + 25
            /\ \A b \in 1..(n - 1) : BlockTop(b + 1) = BlockTop(b) + BlockHeight + 20
            /\ ret.height = BlockTop(n) + BlockHeight + 10 + 15
            /\ \A b \in 1..n :
                  /\ Len(ret.graphs[b].rects) = Len(FlatDays(call.yearData[b].calendar))
                  /\ \A r \in 1..Len(ret.graphs[b].rects) :
                        LET rect == ret.graphs[b].rects[r]
                        IN  /\ 0 <= rect.x
                            /\ rect.x + 10 <= ret.width
                            /\ 0 <= rect.y
                            /\ rect.y + 10 <= ret.height
                            /\ rect.width = 10
                            /\ rect.height = 10
                            /\ \A c \in (b + 1)..n :
                                  \A q \in 1..Len(ret.graphs[c].rects) :
                                     rect.y + 10 <= ret.graphs[c].rects[q].y

\* two blocks, the first of a whole year and the second of nine days, with
\* a rectangle in the last column and one in the seventh row of the last block
C14_Witness ==
    /\ LayoutDone
    /\ Len(call.yearData) = 2
    /\ Len(call.yearData[1].calendar.weeks) = 53
    /\ Len(call.yearData[2].calendar.weeks) = 2
    /\ \E r \in 1..Len(ret.graphs[1].rects) :
          ret.graphs[1].rects[r].x + cellSize + cellGap + padding = ret.width
    /\ \E q \in 1..Len(ret.graphs[2].rects) :
          ret.graphs[2].rects[q].y = GridTop(BlockTop(2)) + 6 * (cellSize + cellGap)

====
